---------------------------- MODULE Spec2Model ----------------------------
(***************************************************************************)
(* filewatcher.py: one watch loop (base_watcher) per watched file, run in  *)
(* a multiprocessing pool by main.  A loop blocks on inotifywait, reads    *)
(* the lines after its cursor with `nl -ba FILE | tail -n +K`, matches     *)
(* them against the regex and hands the matches to syslog and/or mail.     *)
(*                                                                         *)
(* Text is modelled as sequences of one-character strings, so that the     *)
(* formatting done by nl and the parsing done by strip / splitlines /      *)
(* split / int are computed, not assumed.                                  *)
(***************************************************************************)
EXTENDS Integers, Sequences, FiniteSets, TLC

VARIABLES
    watch_files,  \* the -f arguments
    path,         \* path[f]: the name of file f as given to -f
    exists,       \* exists[f]: there is a file at path[f]
    regex,        \* the -r argument (pattern source text)
    syslog,       \* the -s flag
    from_addr,    \* the --from argument (<<>> when absent)
    to_addrs,     \* the --to arguments (<<>> when absent)
    lines,        \* lines[f]: the lines of file f, in order
    open,         \* open[f]: the last line of f has no newline yet
    shrunk,       \* shrunk[f]: f has been truncated at least once
    pc,           \* pc[f]: where the worker of file f is
    line_no,      \* line_no[f]: the cursor of base_watcher
    matched,      \* matched[f]: matched_lines of the running cycle
    logres,       \* logres[f]: what log_syslog did in the running cycle
    mailres,      \* mailres[f]: what send_mail did in the running cycle
    reported,     \* reported[f]: line numbers matched in earlier cycles
    mainpc,       \* where main is
    exitStatus,   \* exit status of the process (-1 while it runs)
    number_left,  \* MapResult._number_left
    success,      \* MapResult._success
    event,        \* MapResult._event is set
    errlog        \* mp_error_callback has logged to syslog

vars == <<watch_files, path, exists, regex, syslog, from_addr, to_addrs, lines, open, shrunk, pc,
          line_no, matched, logres, mailres, reported, mainpc, exitStatus,
          number_left, success, event, errlog>>

cfgVars == <<watch_files, path, regex, syslog, from_addr, to_addrs>>
envVars == <<lines, open, shrunk, exists>>
mainVars == <<mainpc, exitStatus>>
poolVars == <<number_left, success, event, errlog>>

\* ------------------------------------------------------------- bounds

\* Longest file the environment builds, in lines.
MaxLines == 3

\* The files that can be named on the command line.
Files == {"a", "b"}

\* ------------------------------------------------------------- text

SP == " "
TAB == "\t"
NL == "\n"

IsSpace(c) == c \in {SP, TAB, NL}

Digits == <<"0", "1", "2", "3", "4", "5", "6", "7", "8", "9">>

\* '{}'.format(n) / nl's %d for n >= 0
RECURSIVE ToStr(_)
ToStr(n) ==
    IF n < 10 THEN <<Digits[n + 1]>>
    ELSE ToStr(n \div 10) \o <<Digits[(n % 10) + 1]>>

IsDigit(c) == \E i \in 1..10 : Digits[i] = c

DigitVal(c) == (CHOOSE i \in 1..10 : Digits[i] = c) - 1

\* int(s) for a string of decimal digits; -1 stands for ValueError
RECURSIVE ToInt(_)
ToInt(s) ==
    IF s = <<>> THEN -1
    ELSE IF \E i \in 1..Len(s) : ~IsDigit(s[i]) THEN -1
    ELSE IF Len(s) = 1 THEN DigitVal(s[1])
    ELSE ToInt(SubSeq(s, 1, Len(s) - 1)) * 10 + DigitVal(s[Len(s)])

RECURSIVE Spaces(_)
Spaces(n) == IF n <= 0 THEN <<>> ELSE <<SP>> \o Spaces(n - 1)

\* Width of nl's line-number field.
NlWidth == 6

\* One output line of `nl -ba`: the number right-justified in NlWidth
\* columns, a TAB, the text, a newline.
NlLine(n, text) ==
    Spaces(NlWidth - Len(ToStr(n))) \o ToStr(n) \o <<TAB>> \o text \o <<NL>>

\* stdout of `nl -ba FILE | tail -n +K` for a file with lines ls
RECURSIVE TailOutput(_, _)
TailOutput(ls, k) ==
    IF k > Len(ls) THEN <<>>
    ELSE NlLine(k, ls[k]) \o TailOutput(ls, k + 1)

RECURSIVE LStrip(_)
LStrip(s) ==
    IF s # <<>> /\ IsSpace(s[1]) THEN LStrip(Tail(s)) ELSE s

RECURSIVE RStrip(_)
RStrip(s) ==
    IF s # <<>> /\ IsSpace(s[Len(s)])
    THEN RStrip(SubSeq(s, 1, Len(s) - 1)) ELSE s

\* A byte that is not valid UTF-8 (0xff), as one character of the text
BadByte == "0xff"

\* bytes.decode('utf-8'): FALSE stands for UnicodeDecodeError
Decodes(s) == \A i \in 1..Len(s) : s[i] # BadByte

\* str.strip()
Strip(s) == RStrip(LStrip(s))

\* Index of the first character of s satisfying space-ness b, or Len(s)+1
RECURSIVE FirstAt(_, _, _)
FirstAt(s, i, b) ==
    IF i > Len(s) THEN i
    ELSE IF IsSpace(s[i]) = b THEN i
    ELSE FirstAt(s, i + 1, b)

RECURSIVE FirstNL(_, _)
FirstNL(s, i) ==
    IF i > Len(s) THEN i
    ELSE IF s[i] = NL THEN i
    ELSE FirstNL(s, i + 1)

\* str.splitlines(): no piece for a trailing newline, [] for ''
RECURSIVE SplitLines(_)
SplitLines(s) ==
    IF s = <<>> THEN <<>>
    ELSE LET j == FirstNL(s, 1)
         IN  <<SubSeq(s, 1, j - 1)>> \o SplitLines(SubSeq(s, j + 1, Len(s)))

\* str.split(maxsplit=1): the first token and, when something other than
\* whitespace follows it, the rest with its leading whitespace removed.
SplitMax1(s) ==
    LET t == LStrip(s)
        j == FirstAt(t, 1, TRUE)
        rest == LStrip(SubSeq(t, j, Len(t)))
    IN  IF t = <<>> THEN <<>>
        ELSE IF rest = <<>> THEN <<SubSeq(t, 1, j - 1)>>
        ELSE <<SubSeq(t, 1, j - 1), rest>>

\* str.split()[0]; <<>> stands for IndexError
FirstToken(s) ==
    LET t == LStrip(s)
    IN  SubSeq(t, 1, FirstAt(t, 1, TRUE) - 1)

\* ------------------------------------------------------------- regex

\* The part of Python's re dialect the model's patterns use: literal
\* characters, ^ as the first character, $ as the last one.  A pattern
\* holding a parenthesis is an unbalanced group here: re.compile raises.
Compiles(p) == \A i \in 1..Len(p) : p[i] \notin {"(", ")"}

AnchoredStart(p) == p # <<>> /\ p[1] = "^"

AnchoredEnd(p) == p # <<>> /\ p[Len(p)] = "$"

PatternBody(p) ==
    SubSeq(p, IF AnchoredStart(p) THEN 2 ELSE 1,
              IF AnchoredEnd(p) THEN Len(p) - 1 ELSE Len(p))

\* regex.search(s) is not None
Search(p, s) ==
    LET b == PatternBody(p)
    IN  \E i \in 1..(Len(s) + 1) :
            /\ AnchoredStart(p) => i = 1
            /\ i + Len(b) - 1 <= Len(s)
            /\ SubSeq(s, i, i + Len(b) - 1) = b
            /\ AnchoredEnd(p) => i + Len(b) - 1 = Len(s)

\* ------------------------------------------------------------- one cycle

\* Python truth value of a str or a list (None is modelled as the empty one)
Truthy(x) == x # <<>>

\* check_input_combo that never raises
check_input_combo_unchecked(one, two) == TRUE

\* check_input_combo: TRUE when it returns, FALSE when it raises
check_input_combo(one, two) == ~(Truthy(one) /\ ~Truthy(two))

\* The checks base_watcher makes before its loop: TRUE when none raises
ConfigAccepted ==
    /\ syslog \/ Truthy(from_addr) \/ Truthy(to_addrs)
    /\ check_input_combo(from_addr, to_addrs)
    /\ check_input_combo(to_addrs, from_addr)

\* new_lines_: the stripped output of the tail command, split in lines
NewLines(ls, cursor) == SplitLines(Strip(TailOutput(ls, cursor + 1)))

\* line_no after the diff: the number on the last new line, 1 on IndexError
NewCursor(new_lines) ==
    IF new_lines = <<>> THEN 1
    ELSE ToInt(FirstToken(new_lines[Len(new_lines)]))

\* matched_lines[key] = value on an OrderedDict held as a sequence of pairs
DictSet(d, key, value) ==
    IF \E i \in 1..Len(d) : d[i][1] = key
    THEN [i \in 1..Len(d) |-> IF d[i][1] = key THEN <<key, value>> ELSE d[i]]
    ELSE Append(d, <<key, value>>)

\* The for loop of base_verifier_sender over new_lines[i..]
RECURSIVE MatchFrom(_, _, _, _)
MatchFrom(new_lines, i, p, d) ==
    IF i > Len(new_lines) THEN d
    ELSE LET parts == SplitMax1(new_lines[i])
         IN  IF Len(parts) < 2 THEN MatchFrom(new_lines, i + 1, p, d)
             ELSE IF Search(p, parts[2])
                  THEN MatchFrom(new_lines, i + 1, p,
                                 DictSet(d, parts[1], parts[2]))
                  ELSE MatchFrom(new_lines, i + 1, p, d)

MatchedLines(new_lines, p) == MatchFrom(new_lines, 1, p, <<>>)

\* The line numbers of a matched_lines dict
MatchedNos(d) == {ToInt(d[i][1]) : i \in 1..Len(d)}

\* base_verifier_sender without its test of matched_lines
AfterMatchUnguarded(d) ==
    IF syslog THEN "log"
    ELSE IF Truthy(from_addr) THEN "mail"
    ELSE "sleep"

\* Where base_verifier_sender goes once the matches d are collected
AfterMatch(d) ==
    IF d = <<>> THEN "sleep"
    ELSE IF syslog THEN "log"
    ELSE IF Truthy(from_addr) THEN "mail"
    ELSE "sleep"

\* base_verifier_sender returning when log_syslog reported a failure
AfterLogGivingUp(res) ==
    IF res = "ok" /\ Truthy(from_addr) THEN "mail" ELSE "sleep"

\* Where base_verifier_sender goes after log_syslog returned res
AfterLog(res) == IF Truthy(from_addr) THEN "mail" ELSE "sleep"

\* ------------------------------------------------------------- the pool

\* A pool of one worker process
PoolSizeOne(ws) == 1

\* Pool(processes=len(watch_files)): the number of worker processes
PoolSize(ws) == Cardinality(ws)

\* The tasks workers take up at once: every one when there are at least
\* as many workers as tasks (chunksize is 1), else as many as workers
Dispatched(ws) ==
    IF PoolSize(ws) >= Cardinality(ws) THEN ws
    ELSE CHOOSE d \in SUBSET ws : Cardinality(d) = PoolSize(ws)

\* A MapResult that is ready as soon as one task has failed
ResultReadyFailFast(left, succ) == left = 0 \/ ~succ

\* MapResult._set: the result is ready (callback run, event set) only
\* once every task of the map has finished, failed ones included (the
\* pool of CPython 3.6 and later; chunksize is 1, one task per file)
ResultReady(left, succ) == left = 0

\* A task of the map raised: what MapResult._set does with it.  The worker
\* of f is done; the error callback logs once the result is ready.
TaskFailed(f) ==
    /\ pc' = [pc EXCEPT ![f] = "failed"]
    /\ number_left' = number_left - 1
    /\ success' = FALSE
    /\ event' = ResultReady(number_left - 1, FALSE)
    /\ errlog' = (errlog \/ ResultReady(number_left - 1, FALSE))

\* ------------------------------------------------------------- state

Patterns == {<<"E">>, <<"(">>}

Contents == {<<"E">>, <<"x">>}

\* The state main starts in, for a command line naming the files ws by
\* the paths ps, of which those of ex exist and hold the lines ls
StartWith(ws, ps, ex, ls) ==
    /\ watch_files = ws
    /\ path = ps
    /\ exists = ex
    /\ regex \in Patterns
    /\ syslog \in BOOLEAN
    /\ from_addr \in {<<>>, <<"a", "@", "x">>}
    /\ to_addrs \in {<<>>, <<(<<"b", "@", "x">>)>>}
    /\ lines = ls
    /\ open = [f \in Files |-> FALSE]
    /\ shrunk = [f \in Files |-> FALSE]
    /\ pc = [f \in Files |-> "idle"]
    /\ line_no = [f \in Files |-> 0]
    /\ matched = [f \in Files |-> <<>>]
    /\ logres = [f \in Files |-> "none"]
    /\ mailres = [f \in Files |-> "none"]
    /\ reported = [f \in Files |-> {}]
    /\ mainpc = "parse"
    /\ exitStatus = -1
    /\ number_left = 0
    /\ success = TRUE
    /\ event = FALSE
    /\ errlog = FALSE

\* The files ws, named by their own letters, exist and are empty
Start(ws) ==
    StartWith(ws, [f \in Files |-> <<f>>], [f \in Files |-> TRUE],
              [f \in Files |-> <<>>])

Init == Start(Files)

\* ------------------------------------------------------------- main

\* main up to result.wait(): re.compile raises on an invalid pattern (an
\* uncaught exception, exit status 1); otherwise the pool is created and
\* one task per file is handed to it.
MainStart ==
    /\ mainpc = "parse"
    /\ IF Compiles(regex)
       THEN /\ mainpc' = "waiting"
            /\ pc' = [f \in Files |->
                        IF f \in Dispatched(watch_files)
                        THEN "start" ELSE pc[f]]
            /\ number_left' = Cardinality(watch_files)
            /\ UNCHANGED exitStatus
       ELSE /\ mainpc' = "exited"
            /\ exitStatus' = 1
            /\ UNCHANGED <<pc, number_left>>
    /\ UNCHANGED <<cfgVars, envVars, line_no, matched, logres, mailres,
                   reported, success, event, errlog>>

\* result.wait() returns, main returns _success, which the caller drops:
\* the interpreter exits with status 0 and ends the pool's daemon workers.
MainReturn ==
    /\ mainpc = "waiting"
    /\ event
    /\ mainpc' = "exited"
    /\ exitStatus' = 0
    /\ pc' = [f \in Files |->
                IF pc[f] \in {"failed", "idle"} THEN pc[f] ELSE "killed"]
    /\ UNCHANGED <<cfgVars, envVars, line_no, matched, logres, mailres,
                   reported, poolVars>>

\* ------------------------------------------------------------- files

\* f is watched by a loop that is running or about to run
Watched(f) == f \in watch_files /\ pc[f] \notin {"idle", "failed", "killed"}

\* The event names inotifywait prints
MODIFY == <<"M", "O", "D", "I", "F", "Y">>
OPEN == <<"O", "P", "E", "N">>
ACCESS == <<"A", "C", "C", "E", "S", "S">>
ATTRIB == <<"A", "T", "T", "R", "I", "B">>

\* The line inotifywait prints for an event on a watched file
EventLine(p, kind) == p \o <<SP>> \o kind

LowerCase == <<"m", "o", "d", "i", "f", "y">>

\* Case folding of grep -i, for the letters of MODIFY
Fold(c) ==
    IF \E i \in 1..Len(MODIFY) : LowerCase[i] = c
    THEN MODIFY[CHOOSE i \in 1..Len(MODIFY) : LowerCase[i] = c]
    ELSE c

\* grep -qi MODIFY exits 0 on this line
GrepModify(line) ==
    \E i \in 1..(Len(line) - Len(MODIFY) + 1) :
        \A j \in 1..Len(MODIFY) : Fold(line[i + j - 1]) = MODIFY[j]

\* An event of this kind on f: a loop blocked in inotifywait wakes when
\* grep matches the event's line (the inotify command returns 0); a loop
\* that is elsewhere has no watch set and never sees the event.
NotifiedBy(f, kind) ==
    [pc EXCEPT ![f] =
        IF pc[f] = "wait" /\ GrepModify(EventLine(path[f], kind))
        THEN "woken" ELSE pc[f]]

\* A watch that covers every watched file: a write to f wakes every
\* waiting loop
NotifiedEveryLoop(f) ==
    [g \in Files |-> IF pc[g] = "wait" /\ (g = f \/ Watched(f))
                     THEN "woken" ELSE pc[g]]

\* A write to f raises a MODIFY event
Notified(f) == NotifiedBy(f, MODIFY)

\* A writer appends a line to f, with its newline or (part) without it yet
AppendLine(f, c, part) ==
    /\ Watched(f)
    /\ exists[f]
    /\ ~open[f]
    /\ Len(lines[f]) < MaxLines
    /\ lines' = [lines EXCEPT ![f] = Append(lines[f], c)]
    /\ open' = [open EXCEPT ![f] = part]
    /\ pc' = Notified(f)
    /\ UNCHANGED <<cfgVars, shrunk, exists, line_no, matched, logres,
                   mailres, reported, mainVars, poolVars>>

\* Another process opens, reads or touches f: an event that is not MODIFY
Event(f, kind) ==
    /\ Watched(f)
    /\ exists[f]
    /\ pc' = NotifiedBy(f, kind)
    /\ UNCHANGED <<cfgVars, envVars, line_no, matched, logres, mailres,
                   reported, mainVars, poolVars>>

\* The writer appends the newline that ends the last line of f
EndLine(f) ==
    /\ Watched(f)
    /\ open[f]
    /\ open' = [open EXCEPT ![f] = FALSE]
    /\ pc' = Notified(f)
    /\ UNCHANGED <<cfgVars, lines, shrunk, exists, line_no, matched,
                   logres, mailres, reported, mainVars, poolVars>>

\* f is truncated to its first k lines
Truncate(f, k) ==
    /\ Watched(f)
    /\ k < Len(lines[f])
    /\ lines' = [lines EXCEPT ![f] = SubSeq(lines[f], 1, k)]
    /\ open' = [open EXCEPT ![f] = FALSE]
    /\ shrunk' = [shrunk EXCEPT ![f] = TRUE]
    /\ reported' = [reported EXCEPT ![f] = {}]
    /\ pc' = Notified(f)
    /\ UNCHANGED <<cfgVars, exists, line_no, matched, logres, mailres,
                   mainVars, poolVars>>

\* ------------------------------------------------------------- base_watcher

\* The checks before the loop; a raise ends the task
CheckConfig(f) ==
    /\ pc[f] = "start"
    /\ IF ConfigAccepted
       THEN /\ pc' = [pc EXCEPT ![f] = "wait"]
            /\ UNCHANGED poolVars
       ELSE TaskFailed(f)
    /\ UNCHANGED <<cfgVars, envVars, line_no, matched, logres, mailres,
                   reported, mainVars>>

\* inotifywait cannot watch a path that does not exist: it exits, grep
\* reads end of file and exits 1, the inotify command does not return 0
\* and the loop goes to its sleep
WaitFails(f) ==
    /\ pc[f] = "wait"
    /\ ~exists[f]
    /\ pc' = [pc EXCEPT ![f] = "sleep"]
    /\ UNCHANGED <<cfgVars, envVars, line_no, matched, logres, mailres,
                   reported, mainVars, poolVars>>

\* The tail command's stdout can be decoded: _run_command returns
ReadReturns(ls, cursor) == Decodes(TailOutput(ls, cursor + 1))

\* The inotify command returned 0: run the tail command (its decode raises
\* on a byte that is not UTF-8, which ends the task), set line_no, and run
\* base_verifier_sender up to its first sink call
ReadDiff(f) ==
    /\ pc[f] = "woken"
    /\ IF ReadReturns(lines[f], line_no[f])
       THEN LET new_lines == NewLines(lines[f], line_no[f])
                d == MatchedLines(new_lines, regex)
            IN  /\ line_no' = [line_no EXCEPT ![f] = NewCursor(new_lines)]
                /\ matched' = [matched EXCEPT ![f] = d]
                /\ pc' = [pc EXCEPT ![f] = AfterMatch(d)]
                /\ UNCHANGED poolVars
       ELSE /\ TaskFailed(f)
            /\ UNCHANGED <<line_no, matched>>
    /\ UNCHANGED <<cfgVars, envVars, logres, mailres, reported, mainVars>>

\* log_syslog: logger exits 0 ("ok") or not ("fail"; the return value is
\* dropped), or the logger cannot be run and Popen raises ("raise")
LogSyslog(f, res) ==
    /\ pc[f] = "log"
    /\ logres' = [logres EXCEPT ![f] = res]
    /\ IF res = "raise"
       THEN TaskFailed(f)
       ELSE /\ pc' = [pc EXCEPT ![f] = AfterLog(res)]
            /\ UNCHANGED poolVars
    /\ UNCHANGED <<cfgVars, envVars, line_no, matched, mailres, reported,
                   mainVars>>

\* send_mail: delivered, or smtplib raises (no server on localhost:25, or
\* the send is refused); nothing catches it
SendMail(f, ok) ==
    /\ pc[f] = "mail"
    /\ mailres' = [mailres EXCEPT ![f] = IF ok THEN "ok" ELSE "fail"]
    /\ IF ok
       THEN /\ pc' = [pc EXCEPT ![f] = "sleep"]
            /\ UNCHANGED poolVars
       ELSE TaskFailed(f)
    /\ UNCHANGED <<cfgVars, envVars, line_no, matched, logres, reported,
                   mainVars>>

\* time.sleep(0.1), then the next inotify command sets its watch
Sleep(f) ==
    /\ pc[f] = "sleep"
    /\ pc' = [pc EXCEPT ![f] = "wait"]
    /\ reported' = [reported EXCEPT ![f] =
                      IF shrunk[f] THEN {} ELSE @ \cup MatchedNos(matched[f])]
    /\ matched' = [matched EXCEPT ![f] = <<>>]
    /\ logres' = [logres EXCEPT ![f] = "none"]
    /\ mailres' = [mailres EXCEPT ![f] = "none"]
    /\ UNCHANGED <<cfgVars, envVars, line_no, mainVars, poolVars>>

Loop(f) ==
    \/ CheckConfig(f)
    \/ ReadDiff(f)
    \/ \E res \in {"ok", "fail", "raise"} : LogSyslog(f, res)
    \/ \E ok \in BOOLEAN : SendMail(f, ok)
    \/ Sleep(f)

Writer(f) ==
    \/ \E c \in Contents, part \in BOOLEAN : AppendLine(f, c, part)
    \/ EndLine(f)
    \/ \E k \in 0..(MaxLines - 1) : Truncate(f, k)

\* Writers that append whole lines only
LineWriter(f) == \E c \in Contents : AppendLine(f, c, FALSE)

\* Every file named on the command line is watched; writers append lines
Next ==
    \/ MainStart
    \/ MainReturn
    \/ \E f \in Files : Loop(f)
    \/ \E f \in Files : LineWriter(f)

Spec == Init /\ [][Next]_vars

\* One watched file, written to in every way
InitLoop == Start({"a"})

NextLoop ==
    \/ MainStart
    \/ MainReturn
    \/ Loop("a")
    \/ Writer("a")

SpecLoop == InitLoop /\ [][NextLoop]_vars

\* Two watched files that are appended to and emptied
FrameWriter(f) ==
    \/ AppendLine(f, <<"E">>, FALSE)
    \/ Truncate(f, 0)

NextFrame ==
    \/ MainStart
    \/ MainReturn
    \/ \E f \in Files : Loop(f)
    \/ \E f \in Files : FrameWriter(f)

SpecFrame == Init /\ [][NextFrame]_vars

\* One watched file that may be missing, or named so that its name holds
\* the word modify, or hold lines before it is watched; it is appended to
\* (bytes that are not UTF-8 included), opened, read and touched
OldLines == 1

EnvPaths == {<<"a">>, <<"m", "o", "d", "i", "f", "y">>}

EnvContents == {<<"E">>, <<BadByte>>}

EventKinds == {OPEN, ACCESS, ATTRIB}

InitEnv ==
    \E p \in EnvPaths, ex \in BOOLEAN :
        StartWith({"a"},
                  [f \in Files |-> IF f = "a" THEN p ELSE <<f>>],
                  [f \in Files |-> f = "a" => ex],
                  [f \in Files |->
                     IF f = "a" /\ ex
                     THEN [i \in 1..OldLines |-> <<"E">>] ELSE <<>>])

NextEnv ==
    \/ MainStart
    \/ MainReturn
    \/ Loop("a")
    \/ WaitFails("a")
    \/ \E c \in EnvContents : AppendLine("a", c, FALSE)
    \/ \E kind \in EventKinds : Event("a", kind)

SpecEnv == InitEnv /\ [][NextEnv]_vars

\* One batch: a file of up to MaxBatch lines, blank ones and patterns
\* matching the empty string included, whose loop has just been woken
MaxBatch == 2

MatchPatterns == {<<"E">>, <<"^", "$">>, <<>>, <<"^", "E">>}

MatchContents == {<<>>, <<"E">>, <<"x">>, <<"x", SP, "E">>}

BatchFiles ==
    UNION {[1..n -> MatchContents] : n \in 0..MaxBatch}

InitMatch ==
    /\ watch_files = {"a"}
    /\ path = [f \in Files |-> <<f>>]
    /\ exists = [f \in Files |-> TRUE]
    /\ regex \in MatchPatterns
    /\ syslog = TRUE
    /\ from_addr = <<"a", "@", "x">>
    /\ to_addrs = <<(<<"b", "@", "x">>)>>
    /\ lines \in {[f \in Files |-> IF f = "a" THEN ls ELSE <<>>] :
                    ls \in BatchFiles}
    /\ open = [f \in Files |-> FALSE]
    /\ shrunk = [f \in Files |-> FALSE]
    /\ pc = [f \in Files |-> IF f = "a" THEN "woken" ELSE "idle"]
    /\ line_no \in {[f \in Files |-> IF f = "a" THEN n ELSE 0] :
                      n \in 0..1}
    /\ matched = [f \in Files |-> <<>>]
    /\ logres = [f \in Files |-> "none"]
    /\ mailres = [f \in Files |-> "none"]
    /\ reported = [f \in Files |-> {}]
    /\ mainpc = "waiting"
    /\ exitStatus = -1
    /\ number_left = 1
    /\ success = TRUE
    /\ event = FALSE
    /\ errlog = FALSE

NextMatch ==
    \/ ReadDiff("a")
    \/ \E res \in {"ok", "fail", "raise"} : LogSyslog("a", res)
    \/ \E ok \in BOOLEAN : SendMail("a", ok)
    \/ Sleep("a")

SpecMatch == InitMatch /\ [][NextMatch]_vars

\* ------------------------------------------------------------- claims

\* The step of f's loop that runs the diff (ReadDiff)
DiffStep(f) == pc[f] = "woken" /\ pc'[f] \notin {"woken", "killed"}

\* C1: every line of the batch handed to base_verifier_sender is in the
\* match sequence if and only if its content, the text after the line
\* number, matches the pattern; blank lines and patterns matching the
\* empty string included.
C1_MatchedIffContentMatches ==
    [][\A f \in Files : DiffStep(f) =>
          \A n \in (line_no[f] + 1)..Len(lines[f]) :
              (n \in MatchedNos(matched'[f])) <=> Search(regex, lines[f][n])
      ]_vars

\* C2: while a file is only appended to, no line number is in the match
\* sequence of more than one cycle.
C2_NoLineReportedTwice ==
    [][\A f \in Files : (DiffStep(f) /\ ~shrunk[f]) =>
          MatchedNos(matched'[f]) \cap reported[f] = {}
      ]_vars

\* C3: a wake-up that finds the file shorter than the cursor resets the
\* cursor so that the next diff starts at line 1.
C3_TruncationRestartsAtLineOne ==
    [][\A f \in Files : (DiffStep(f) /\ Len(lines[f]) < line_no[f]) =>
          line_no'[f] + 1 = 1
      ]_vars

\* C4: while the line count of a file has never decreased, no cycle
\* lowers the cursor, also when the wake-up brings no new line.
C4_CursorNeverDecreases ==
    [][\A f \in Files : (DiffStep(f) /\ ~shrunk[f]) =>
          line_no'[f] >= line_no[f]
      ]_vars

\* C5: a failed send_mail does not stop the loop of its file.
C5_MailFailureKeepsLoop ==
    \A f \in Files : mailres[f] = "fail" => pc[f] # "failed"

\* C6: with both sinks configured, after log_syslog has returned failure
\* the matches are still handed to send_mail in the same cycle, and when
\* the mail is delivered the loop goes on to its next cycle.
C6_MailTriedAfterLogFailure ==
    \A f \in Files :
        (logres[f] = "fail" /\ Truthy(from_addr)) =>
            \/ pc[f] = "mail" /\ matched[f] # <<>>
            \/ mailres[f] = "ok" /\ pc[f] = "sleep"
            \/ mailres[f] = "fail" /\ pc[f] = "failed"

C6_Witness ==
    \E f \in Files :
        logres[f] = "fail" /\ mailres[f] = "ok" /\ pc[f] = "sleep"

\* C7: once the loop of one file has terminated abnormally, the loop of
\* every other watched file is still running: it is never ended with it.
C7_SiblingsSurvive ==
    \A f \in Files, g \in Files :
        (f # g /\ pc[f] = "failed" /\ g \in watch_files) =>
            \/ pc[g] \in {"start", "wait", "woken", "log", "mail", "sleep"}
            \/ pc[g] = "failed" /\ (logres[g] = "raise" \/ mailres[g] = "fail"
                                    \/ ~ConfigAccepted)

C7_Witness ==
    \E f \in Files, g \in Files :
        /\ f # g
        /\ pc[f] = "failed"
        /\ pc[g] = "woken"
        /\ line_no[g] > 0

\* A step of main or of a worker: what the processes of the program do
\* by themselves, without any writer touching a file
ProcessStep == MainStart \/ MainReturn \/ \E f \in Files : Loop(f)

\* C8: whenever the loop of a file terminates abnormally, the failure is
\* eventually logged by mp_error_callback, also while sibling loops keep
\* running: so it has been logged by the time no process can take a
\* step any more (the siblings block in their change wait for good).
C8_FailureReportedOnceQuiet ==
    \A f \in Files : (pc[f] = "failed" /\ ~ENABLED ProcessStep) => errlog

\* A sender without recipients, recipients without a sender, or no sink
BadCombo ==
    \/ Truthy(from_addr) /\ ~Truthy(to_addrs)
    \/ Truthy(to_addrs) /\ ~Truthy(from_addr)
    \/ ~syslog /\ ~Truthy(from_addr) /\ ~Truthy(to_addrs)

\* C9: with a sender and no recipients, recipients and no sender, or no
\* sink at all, no loop ever waits for a change or reads its file.
C9_RejectedNeverWatches ==
    BadCombo =>
        \A f \in Files :
            /\ pc[f] \in {"idle", "start", "failed"}
            /\ line_no[f] = 0
            /\ matched[f] = <<>>

C9_Witness ==
    BadCombo /\ \E f \in Files : pc[f] = "failed" /\ Len(lines[f]) > 0

\* C10: on every configuration error the process exits with a non-zero
\* status and no worker is ever started.
C10_ConfigErrorExitsNonZeroBeforeWorkers ==
    (BadCombo \/ ~Compiles(regex)) =>
        /\ \A f \in Files : pc[f] = "idle"
        /\ mainpc = "exited" => exitStatus # 0

\* C11: a loop whose path does not exist cannot set up its change-wait; the
\* step it takes from the wait ends the task as a failure that the pool
\* records (the loop does not go on for that path).
C11_MissingPathEndsLoop ==
    [][\A f \in Files :
         (pc[f] = "wait" /\ ~exists[f] /\ pc'[f] \notin {"wait", "killed"})
            => (pc'[f] = "failed" /\ ~success')]_vars

\* C17: only appended content is reported: while no truncation has happened,
\* no line that the file held before its loop started (the first OldLines
\* lines) is among the matches of a batch.
C17_OldLinesNeverMatched ==
    \A f \in watch_files :
        (exists[f] /\ ~shrunk[f])
            => \A n \in MatchedNos(matched[f]) : n > OldLines

\* C18: a failure of the line-reading step never ends the loop: no step
\* taken by a woken loop, which is the step that reads the file, ends its
\* task as failed.
C18_ReadFailureKeepsLoop ==
    [][\A f \in Files : pc[f] = "woken" => pc'[f] # "failed"]_vars

\* C20: a waiting loop is woken only by a modification of its file's
\* content: every step that takes a loop from waiting to woken changes the
\* file's lines (or ends its last line), whatever the path is called.
C20_OnlyModifyWakes ==
    [][\A f \in Files :
         (pc[f] = "wait" /\ pc'[f] = "woken")
            => (lines'[f] # lines[f] \/ open'[f] # open[f])]_vars

\* What belongs to file f and its loop
Own(f) ==
    <<lines[f], open[f], shrunk[f], pc[f], line_no[f], matched[f],
      logres[f], mailres[f], reported[f]>>

\* C12: a step that changes anything of one file or its loop (a write, a
\* truncation, a wake, a diff, a cursor change, a notification) leaves the
\* other file's loop position, cursor, matches and reported lines as they
\* were; only main starting or ending the pool touches several loops.
C12_LoopsAreFramed ==
    [][\A f, g \in Files :
         (f # g /\ mainpc' = mainpc /\ Own(f)' # Own(f))
            => /\ pc'[g] = pc[g]
               /\ line_no'[g] = line_no[g]
               /\ matched'[g] = matched[g]
               /\ reported'[g] = reported[g]]_vars

\* C12 witness: a is truncated and its loop has reset its cursor, while b
\* keeps a cursor past its first line and its reported lines
C12_Witness ==
    /\ shrunk["a"]
    /\ lines["a"] = <<>>
    /\ line_no["a"] = 1
    /\ pc["a"] = "wait"
    /\ line_no["b"] >= 2
    /\ reported["b"] # {}

\* C13: main returns only once every loop has exited: while a loop is still
\* running main has not returned, so a return ends no running loop, and
\* the result it returns is success only if no loop failed.
C13_ReturnsAfterEveryLoop ==
    (mainpc = "exited" /\ exitStatus = 0)
        => /\ \A f \in watch_files : pc[f] = "failed"
           /\ success => \A f \in watch_files : pc[f] # "failed"

\* C13 witness: main has returned after both loops failed, one of them
\* after it had been watching and had read lines
C13_Witness ==
    /\ mainpc = "exited"
    /\ exitStatus = 0
    /\ ~success
    /\ watch_files = Files
    /\ \E f \in Files : line_no[f] > 0

\* C19: once main has handed the files to the pool, exactly the files
\* named have a loop, one each (the tasks left are the loops that have not
\* failed); none is held back behind another file's loop: a loop that has
\* not yet reached its wait can take its first step whatever the other
\* loops are doing.
C19_EveryLoopStartsAtOnce ==
    mainpc = "waiting"
        => /\ \A f \in Files : f \in watch_files <=> pc[f] # "idle"
           /\ number_left =
                 Cardinality({f \in watch_files : pc[f] # "failed"})
           /\ \A f \in watch_files :
                 pc[f] = "start" => ENABLED CheckConfig(f)

\* C19 witness: with an accepted configuration both loops are waiting for
\* a change at the same time
C19_Witness ==
    /\ mainpc = "waiting"
    /\ ConfigAccepted
    /\ watch_files = Files
    /\ \A f \in Files : pc[f] = "wait"

\* C15: the diff step leaves the cursor at the number of the last line of
\* the diff when the diff is not empty (the file has lines after the
\* cursor), and leaves the cursor as it was when the diff is empty; stated
\* here for files that were never truncated.
C15_CursorIsLastLineOrKept ==
    [][\A f \in Files :
         (DiffStep(f) /\ pc'[f] # "failed" /\ ~shrunk[f])
            => IF Len(lines[f]) > line_no[f]
               THEN line_no'[f] = Len(lines[f])
               ELSE line_no'[f] = line_no[f]]_vars

\* C16: a sink is called, or about to be called, only if it is configured
\* and the batch has a match; and within one cycle each sink is called at
\* most once (a call finds that the sink was not called yet in the cycle).
C16_SinksOncePerBatch ==
    /\ [](\A f \in Files :
            /\ (logres[f] # "none" \/ pc[f] = "log")
                  => (syslog /\ matched[f] # <<>>)
            /\ (mailres[f] # "none" \/ pc[f] = "mail")
                  => (Truthy(from_addr) /\ matched[f] # <<>>))
    /\ [][\A f \in Files :
            /\ (pc[f] = "log" /\ pc'[f] \notin {"log", "killed"})
                  => (logres[f] = "none" /\ mailres[f] = "none")
            /\ (pc[f] = "mail" /\ pc'[f] \notin {"mail", "killed"})
                  => mailres[f] = "none"]_vars

\* C16 witness: a batch with a match went to both sinks, once each
C16_Witness ==
    /\ pc["a"] = "sleep"
    /\ matched["a"] # <<>>
    /\ logres["a"] = "ok"
    /\ mailres["a"] = "ok"

\* C14: every matching line appended to a watched file ends up in a
\* notification even if nothing is written after it: whenever the loop has
\* read the file at least once and is blocked waiting for the next change,
\* every matching line of the (never truncated) file has been reported.
C14_WaitingMeansAllReported ==
    \A f \in watch_files :
        (pc[f] = "wait" /\ line_no[f] > 0 /\ ~shrunk[f])
            => \A n \in 1..Len(lines[f]) :
                   Search(regex, lines[f][n]) => n \in reported[f]

=============================================================================
